---- MODULE Spec2Model ----
(***************************************************************************)
(* Model of the WebBluetooth hardware session of                           *)
(* src/wasm/rust/src/webbluetooth/webbluetooth_hardware.rs:                *)
(*   - WebBluetoothHardwareSpecializer::specialize (startup handshake),    *)
(*   - run_webbluetooth_loop (connection, endpoint resolution, command     *)
(*     dispatch, the disconnect and value-changed callbacks),              *)
(*   - WebBluetoothHardware (the facade: the four operations and           *)
(*     event_stream),                                                      *)
(* and of the scan manager of                                              *)
(* src/wasm/rust/src/webbluetooth/webbluetooth_manager.rs:                 *)
(*   - WebBluetoothCommunicationManager (start_scanning and its scan       *)
(*     task, stop_scanning).                                               *)
(*                                                                         *)
(* Everything runs on one cooperative scheduler (spawn_local), so a step   *)
(* of the model is the code between two suspension points (.await) of one  *)
(* task, or one run of a platform callback.  A failed unwrap() panics the  *)
(* task or callback that evaluated it: that task stops where it is and     *)
(* nothing it owns is released (wasm panics do not unwind).                *)
(***************************************************************************)
EXTENDS Integers, Sequences, FiniteSets, TLC

\* ---------------------------------------------------------------- bounds
MaxCmds == 2      \* commands a run submits through the facade
MaxEvents == 2    \* HardwareEvents a run broadcasts
MaxSubs == 2      \* broadcast receivers alive at the same time
MaxEvCmds == 1    \* commands of a run of SpecEvents
MaxScans == 2     \* start_scanning calls of a run

\* ------------------------------------------------------- program constants
CommandQueueCap == 256    \* mpsc::channel(256) of commands
BroadcastCap == 256       \* broadcast::channel(256) of HardwareEvent

\* ------------------------------------------------------------ value sets
Services == {"S1", "S2"}
U1401 == "00001401-0000-1000-8000-00805f9b34fb"
U1402 == "00001402-0000-1000-8000-00805f9b34fb"
UOther == "0000ffe1-0000-1000-8000-00805f9b34fb"
UUIDs == {U1401, U1402, UOther}
Endpoints == {"Tx", "Rx", "Aux"}
Bytes == {1, 2}
DeviceId == "dev"

\* A characteristic handle is the characteristic of a service with a UUID.
NoChar == <<"none", "none">>
Handles == Services \X UUIDs

\* One row of BluetoothLESpecifier::services(): service -> (endpoint -> uuid)
Row(s, n, u) == [svc |-> s, name |-> n, uuid |-> u]

\* The specifier tables a run can be started with.
Powerblow == {Row("S1", "Tx", U1401), Row("S1", "Rx", U1402)}
Specifiers ==
  { Powerblow,
    {Row("S1", "Aux", U1401), Row("S1", "Tx", UOther)},
    {Row("S1", "Rx", UOther), Row("S2", "Aux", U1402)},
    {Row("S1", "Tx", UOther), Row("S2", "Aux", UOther)} }

Kinds == {"Write", "Read", "Subscribe", "Unsubscribe"}

NoReply == [tag |-> "none", ep |-> "none", data |-> 0]
OkReply == [tag |-> "Ok", ep |-> "none", data |-> 0]
ErrReply == [tag |-> "DeviceCommunicationError", ep |-> "none", data |-> 0]
Reading(e, d) == [tag |-> "Reading", ep |-> e, data |-> d]

\* What a sub-task that panics leaves behind instead of a reply.
Panic == [tag |-> "panic", ep |-> "none", data |-> 0]

\* A command and its completion (ButtplugFutureStateShared):
\*   st     "sending" (the caller waits for room in the queue), "queued",
\*          "lost" (dequeued by a loop that panicked on it), "spawned",
\*          "io" (platform promise pending), "done", "panicked"
\*   waited the caller's send found the queue full
\*   io     "none", "pending", "ok", "rejected", "syncerr"
\*   reply  the value given to set_reply; nreply counts the set_reply calls
NoCmd == [kind |-> "none", ep |-> "none", st |-> "new", io |-> "none",
          reply |-> NoReply, nreply |-> 0, waited |-> FALSE]


EvDisconnected == [tag |-> "Disconnected", id |-> DeviceId, ep |-> "none", data |-> 0]
EvNotification(e, d) == [tag |-> "Notification", id |-> DeviceId, ep |-> e, data |-> d]

VARIABLES
  loopPc,        \* position of run_webbluetooth_loop
  todo,          \* rows of btle_protocol.services() not yet iterated
  curService,    \* the service whose characteristics are being iterated
  char_map,      \* HashMap<Endpoint, characteristic>
  disconnectCb,  \* ongattserverdisconnected is set
  onchange,      \* per characteristic: endpoint captured by its
                 \* oncharacteristicvaluechanged closure, or "none"
  localEvents,   \* everything sent on the startup mpsc channel
  specialize,    \* "waiting", "ok" (Hardware returned), "err"
  facade,        \* "none", "live", "dropped"
  cmds,          \* the commands created so far: command id -> record
  nextId,        \* id of the next command the facade creates
  queue,         \* the command mpsc channel
  events,        \* everything sent on the broadcast channel
  subs,          \* n -> number of live broadcast receivers that subscribed
                 \*   when n events had been sent (they see the later ones)
  disconnected,  \* the platform signalled gattserverdisconnected
  cbPanics,      \* callbacks that panicked
  resolved,      \* rows whose characteristic was resolved on the device
  missing,       \* what the device lacked: "service", "characteristic"
  bluetooth,     \* navigator.bluetooth exists in this browser
  scans,         \* the start_scanning calls so far: scan id -> scan record
  managerEvents  \* everything sent on the manager's event channel

vars == <<loopPc, todo, curService, char_map, disconnectCb, onchange,
          localEvents, specialize, facade, cmds, nextId, queue, events,
          subs, disconnected, cbPanics, resolved, missing,
          bluetooth, scans, managerEvents>>

\* The state of WebBluetoothCommunicationManager and its scan tasks.
scanVars == <<bluetooth, scans, managerEvents>>

CmdIds == DOMAIN cmds
Offsets == 0..MaxEvents

\* The session before its loop has run.
InitSession ==
  /\ loopPc = "connect"
  /\ todo \in Specifiers
  /\ curService = "none"
  /\ char_map = [e \in Endpoints |-> NoChar]
  /\ disconnectCb = FALSE
  /\ onchange = [h \in Handles |-> "none"]
  /\ localEvents = <<>>
  /\ specialize = "waiting"
  /\ facade = "none"
  /\ cmds = <<>>
  /\ nextId = 1
  /\ queue = <<>>
  /\ events = <<>>
  /\ subs = [n \in Offsets |-> 0]
  /\ disconnected = FALSE
  /\ cbPanics = {}
  /\ resolved = {}
  /\ missing = {}

\* A manager that has not scanned yet.
InitManager ==
  /\ scans = <<>>
  /\ managerEvents = <<>>

\* A session is created from a device that navigator.bluetooth handed out.
Init ==
  /\ InitSession
  /\ InitManager
  /\ bluetooth = TRUE

\* ------------------------------------------------------------- startup
startupVars == <<todo, curService, char_map, disconnectCb, localEvents, loopPc,
                 resolved, missing>>
sessionVars == <<onchange, cmds, nextId, queue, events, subs, disconnected, cbPanics>>

\* A loop that sends Connected as soon as the connection is up, before the
\* services are resolved and the disconnect closure is set.
ConnectOk_SignalsAtOnce ==
  /\ loopPc = "connect"
  /\ loopPc' = IF todo = {} THEN "register" ELSE "services"
  /\ localEvents' = Append(localEvents, "Connected")
  /\ UNCHANGED <<todo, curService, char_map, disconnectCb,
                 specialize, facade, resolved, missing>>
  /\ UNCHANGED sessionVars
  /\ UNCHANGED scanVars

\* Lines 187-189: the platform accepts the connection.
ConnectOk ==
  /\ loopPc = "connect"
  /\ loopPc' = IF todo = {} THEN "register" ELSE "services"
  /\ UNCHANGED <<todo, curService, char_map, disconnectCb, localEvents,
                 specialize, facade, resolved, missing>>
  /\ UNCHANGED sessionVars
  /\ UNCHANGED scanVars

\* ConnectFail without its `return`: the loop goes on to the services.
ConnectFail_NoReturn ==
  /\ loopPc = "connect"
  /\ localEvents' = Append(localEvents, "Disconnected")
  /\ loopPc' = IF todo = {} THEN "register" ELSE "services"
  /\ UNCHANGED <<todo, curService, char_map, disconnectCb, specialize, facade,
                 resolved, missing>>
  /\ UNCHANGED sessionVars
  /\ UNCHANGED scanVars

\* Lines 190-196: the platform rejects the connection.
ConnectFail ==
  /\ loopPc = "connect"
  /\ localEvents' = Append(localEvents, "Disconnected")
  /\ loopPc' = "returned"
  /\ UNCHANGED <<todo, curService, char_map, disconnectCb, specialize, facade,
                 resolved, missing>>
  /\ UNCHANGED sessionVars
  /\ UNCHANGED scanVars

\* The services of the specifier still to iterate.
TodoServices == {r.svc : r \in todo}
RowsOf(s) == {r \in todo : r.svc = s}

\* Lines 198-207: get_primary_service resolves; its characteristics follow.
ServiceFound ==
  /\ loopPc = "services"
  /\ \E s \in TodoServices :
       /\ curService' = s
       /\ loopPc' = "chars"
  /\ UNCHANGED <<todo, char_map, disconnectCb, localEvents, specialize, facade,
                 resolved, missing>>
  /\ UNCHANGED sessionVars
  /\ UNCHANGED scanVars

\* Lines 208-215: get_primary_service fails: `continue`.
ServiceNotFound ==
  /\ loopPc = "services"
  /\ \E s \in TodoServices :
       /\ todo' = todo \ RowsOf(s)
       /\ loopPc' = IF todo' = {} THEN "register" ELSE "services"
  /\ missing' = missing \cup {"service"}
  /\ UNCHANGED <<curService, char_map, disconnectCb, localEvents, specialize,
                 facade, resolved>>
  /\ UNCHANGED sessionVars
  /\ UNCHANGED scanVars

\* Lines 224-234: the endpoint a resolved characteristic is inserted under.
MapKey(chr_name, chr_uuid) ==
  IF chr_uuid = U1401 THEN "Tx"
  ELSE IF chr_uuid = U1402 THEN "Rx"
  ELSE chr_name

\* Lines 216-235: get_characteristic resolves and the handle is inserted.
CharFound ==
  /\ loopPc = "chars"
  /\ \E r \in RowsOf(curService) :
       /\ char_map' = [char_map EXCEPT
                         ![MapKey(r.name, r.uuid)] = <<r.svc, r.uuid>>]
       /\ todo' = todo \ {r}
       /\ resolved' = resolved \cup {r}
       /\ IF RowsOf(curService) = {r}
            THEN /\ curService' = "none"
                 /\ loopPc' = IF todo' = {} THEN "register" ELSE "services"
            ELSE /\ curService' = curService
                 /\ loopPc' = "chars"
  /\ UNCHANGED <<disconnectCb, localEvents, specialize, facade, missing>>
  /\ UNCHANGED sessionVars
  /\ UNCHANGED scanVars

\* Lines 218-222: get_characteristic fails and `.await.unwrap()` panics.
CharNotFound ==
  /\ loopPc = "chars"
  /\ RowsOf(curService) # {}
  /\ loopPc' = "panicked"
  /\ missing' = missing \cup {"characteristic"}
  /\ UNCHANGED <<todo, curService, char_map, disconnectCb, localEvents,
                 specialize, facade, resolved>>
  /\ UNCHANGED sessionVars
  /\ UNCHANGED scanVars

\* Lines 237-256: set ongattserverdisconnected, then send Connected.
RegisterAndSignal ==
  /\ loopPc = "register"
  /\ disconnectCb' = TRUE
  /\ localEvents' = Append(localEvents, "Connected")
  /\ loopPc' = "recv"
  /\ UNCHANGED <<todo, curService, char_map, specialize, facade, resolved,
                 missing>>
  /\ UNCHANGED sessionVars
  /\ UNCHANGED scanVars

\* Lines 137-150: specialize receives the startup signal.
SpecializeResult(ev) == IF ev = "Connected" THEN "ok" ELSE "err"

SpecializeRecv ==
  /\ specialize = "waiting"
  /\ Len(localEvents) >= 1
  /\ specialize' = SpecializeResult(Head(localEvents))
  /\ facade' = IF specialize' = "ok" THEN "live" ELSE "none"
  /\ UNCHANGED startupVars
  /\ UNCHANGED sessionVars
  /\ UNCHANGED scanVars

\* ------------------------------------------------------ facade operations

\* Callers whose send is waiting for room in the command queue.
Sending == {c \in CmdIds : cmds[c].st = "sending"}

\* Lines 109-110, 372, 390, 413, 432: sender.send(cmd).await on the bounded
\* channel takes a free slot at once; with the queue at capacity, or other
\* senders already waiting for a slot, the caller waits its turn.
HasRoom == Len(queue) < CommandQueueCap /\ Sending = {}

\* A send that gives up when the queue is full (try_send): the caller goes
\* on to await a completion whose command was dropped.
Send_DropsWhenFull(kind, ep) ==
  /\ facade = "live"
  /\ cmds' = Append(cmds,
                [NoCmd EXCEPT !.kind = kind, !.ep = ep, !.st = "queued",
                              !.waited = ~HasRoom])
  /\ queue' = IF HasRoom THEN Append(queue, nextId) ELSE queue
  /\ nextId' = nextId + 1
  /\ UNCHANGED <<onchange, events, subs, disconnected, cbPanics,
                 specialize, facade>>
  /\ UNCHANGED startupVars
  /\ UNCHANGED scanVars

\* Lines 363-441: read_value, write_value, subscribe, unsubscribe: a fresh
\* completion, the command sent into the queue, then the caller awaits.
Send(kind, ep) ==
  /\ facade = "live"
  /\ cmds' = Append(cmds,
                [NoCmd EXCEPT !.kind = kind, !.ep = ep,
                              !.st = IF HasRoom THEN "queued" ELSE "sending",
                              !.waited = ~HasRoom])
  /\ queue' = IF HasRoom THEN Append(queue, nextId) ELSE queue
  /\ nextId' = nextId + 1
  /\ UNCHANGED <<onchange, events, subs, disconnected, cbPanics,
                 specialize, facade>>
  /\ UNCHANGED startupVars
  /\ UNCHANGED scanVars

\* A facade operation of a run of at most MaxCmds commands.
Submit(kind, ep) == nextId <= MaxCmds /\ Send(kind, ep)

\* The minimum of a non-empty set of command ids.
MinOf(S) == CHOOSE c \in S : \A d \in S : c <= d

\* Lines 372, 390, 413, 432: a slot is free: the send of the caller that has
\* waited longest completes and its command is in the queue.
SendCompletes ==
  /\ Sending # {}
  /\ Len(queue) < CommandQueueCap
  /\ cmds' = [cmds EXCEPT ![MinOf(Sending)].st = "queued"]
  /\ queue' = Append(queue, MinOf(Sending))
  /\ UNCHANGED <<onchange, nextId, events, subs, disconnected, cbPanics,
                 specialize, facade>>
  /\ UNCHANGED startupVars
  /\ UNCHANGED scanVars

\* The number of live receivers of the broadcast channel.
RECURSIVE ReceiversUpTo(_)
ReceiversUpTo(n) == IF n < 0 THEN 0 ELSE subs[n] + ReceiversUpTo(n - 1)
ReceiverCount == ReceiversUpTo(MaxEvents)

\* Lines 355-357: event_stream() subscribes a new broadcast receiver.
EventStream ==
  /\ facade = "live"
  /\ ReceiverCount < MaxSubs
  /\ subs' = [subs EXCEPT ![Len(events)] = @ + 1]
  /\ UNCHANGED <<onchange, cmds, nextId, queue, events, disconnected,
                 cbPanics, specialize, facade>>
  /\ UNCHANGED startupVars
  /\ UNCHANGED scanVars

\* The holder of a broadcast::Receiver returned by event_stream() drops it.
DropReceiver ==
  /\ \E n \in Offsets :
       /\ subs[n] > 0
       /\ subs' = [subs EXCEPT ![n] = @ - 1]
  /\ UNCHANGED <<onchange, cmds, nextId, queue, events, disconnected,
                 cbPanics, specialize, facade>>
  /\ UNCHANGED startupVars
  /\ UNCHANGED scanVars

\* The holder of the Hardware drops it (device_command_sender goes with it).
DropFacade ==
  /\ facade = "live"
  /\ facade' = "dropped"
  /\ UNCHANGED <<specialize>>
  /\ UNCHANGED sessionVars
  /\ UNCHANGED startupVars
  /\ UNCHANGED scanVars

\* ------------------------------------------------------------ dispatch loop
\* Every operation future owns a clone of the sender until it completes.
PendingCallers == {c \in CmdIds : cmds[c].st # "new" /\ cmds[c].nreply = 0}
QueueClosed == facade # "live" /\ PendingCallers = {}

\* Lines 261, 281, 293, 320: char_map.get(&endpoint).unwrap()
Lookup(ep) == char_map[ep]

\* A Subscribe arm whose closure is tagged Tx whatever endpoint was asked for.
OnChangeAfter_TaggedTx(kind, ep) ==
  IF kind = "Subscribe" THEN [onchange EXCEPT ![Lookup(ep)] = "Tx"] ELSE onchange

\* Lines 291-311: Subscribe sets the characteristic's value-changed closure,
\* which captures the endpoint, before its sub-task is spawned.
OnChangeAfter(kind, ep) ==
  IF kind = "Subscribe" THEN [onchange EXCEPT ![Lookup(ep)] = ep] ELSE onchange

\* A loop that awaits each command's platform call itself: it receives the
\* next command only when no earlier one is in flight.
Dispatch_AwaitsInline ==
  /\ loopPc = "recv"
  /\ queue # <<>>
  /\ \A x \in CmdIds : cmds[x].st \notin {"spawned", "io"}
  /\ LET c == Head(queue) IN
       /\ queue' = Tail(queue)
       /\ IF Lookup(cmds[c].ep) = NoChar
            THEN /\ loopPc' = "panicked"
                 /\ cmds' = [cmds EXCEPT ![c].st = "lost"]
                 /\ onchange' = onchange
            ELSE /\ loopPc' = "recv"
                 /\ cmds' = [cmds EXCEPT ![c].st = "spawned"]
                 /\ onchange' = OnChangeAfter(cmds[c].kind, cmds[c].ep)
  /\ UNCHANGED <<todo, curService, char_map, disconnectCb, localEvents,
                 resolved, missing>>
  /\ UNCHANGED <<nextId, events, subs, disconnected, cbPanics,
                 specialize, facade>>
  /\ UNCHANGED scanVars

\* A loop that goes on receiving after it has panicked on a command.
Dispatch_SurvivesPanic ==
  /\ loopPc \in {"recv", "panicked"}
  /\ queue # <<>>
  /\ LET c == Head(queue) IN
       /\ queue' = Tail(queue)
       /\ IF Lookup(cmds[c].ep) = NoChar
            THEN /\ loopPc' = "panicked"
                 /\ cmds' = [cmds EXCEPT ![c].st = "lost"]
                 /\ onchange' = onchange
            ELSE /\ loopPc' = "recv"
                 /\ cmds' = [cmds EXCEPT ![c].st = "spawned"]
                 /\ onchange' = OnChangeAfter(cmds[c].kind, cmds[c].ep)
  /\ UNCHANGED <<todo, curService, char_map, disconnectCb, localEvents,
                 resolved, missing>>
  /\ UNCHANGED <<nextId, events, subs, disconnected, cbPanics,
                 specialize, facade>>
  /\ UNCHANGED scanVars

\* Lines 257-331: recv() yields a command: look its endpoint up (a failed
\* unwrap panics the loop) and spawn the command's sub-task.
Dispatch ==
  /\ loopPc = "recv"
  /\ queue # <<>>
  /\ LET c == Head(queue) IN
       /\ queue' = Tail(queue)
       /\ IF Lookup(cmds[c].ep) = NoChar
            THEN /\ loopPc' = "panicked"
                 /\ cmds' = [cmds EXCEPT ![c].st = "lost"]
                 /\ onchange' = onchange
            ELSE /\ loopPc' = "recv"
                 /\ cmds' = [cmds EXCEPT ![c].st = "spawned"]
                 /\ onchange' = OnChangeAfter(cmds[c].kind, cmds[c].ep)
  /\ UNCHANGED <<todo, curService, char_map, disconnectCb, localEvents,
                 resolved, missing>>
  /\ UNCHANGED <<nextId, events, subs, disconnected, cbPanics,
                 specialize, facade>>
  /\ UNCHANGED scanVars

\* Lines 257, 332: recv() yields None once every sender is gone.
LoopExit ==
  /\ loopPc = "recv"
  /\ queue = <<>>
  /\ QueueClosed
  /\ loopPc' = "exited"
  /\ UNCHANGED <<todo, curService, char_map, disconnectCb, localEvents,
                 resolved, missing>>
  /\ UNCHANGED <<specialize, facade>>
  /\ UNCHANGED sessionVars
  /\ UNCHANGED scanVars

\* ---------------------------------------------------------------- sub-tasks
\* A Write arm that reports success whatever the platform answered.
WriteReply_AlwaysOk(io) == OkReply

\* Lines 266-276: the Write arm replies on every outcome of the write.
WriteReply(io) == IF io = "ok" THEN OkReply ELSE ErrReply

\* Lines 283-288: the Read arm unwraps the read promise.
ReadReply(ep, io, data) == IF io = "ok" THEN Reading(ep, data) ELSE Panic

\* Lines 313-315: the Subscribe arm unwraps the start_notifications promise.
SubscribeReply(io) == IF io = "ok" THEN OkReply ELSE Panic

\* Lines 322-327: the Unsubscribe arm replies on both outcomes.
UnsubscribeReply(io) == IF io = "ok" THEN OkReply ELSE ErrReply

TaskReply(kind, ep, io, data) ==
  CASE kind = "Write" -> WriteReply(io)
    [] kind = "Read" -> ReadReply(ep, io, data)
    [] kind = "Subscribe" -> SubscribeReply(io)
    [] OTHER -> UnsubscribeReply(io)

\* The command after its sub-task ran to its end with platform outcome io.
Finished(cmd, io, data) ==
  LET r == TaskReply(cmd.kind, cmd.ep, io, data) IN
  IF r = Panic
    THEN [cmd EXCEPT !.st = "panicked", !.io = io]
    ELSE [cmd EXCEPT !.st = "done", !.io = io, !.reply = r,
                     !.nreply = cmd.nreply + 1]

\* First poll of a sub-task: the platform call is issued and its promise
\* awaited (lines 267, 283, 313, 322).
TaskStart ==
  /\ \E c \in CmdIds :
       /\ cmds[c].st = "spawned"
       /\ cmds' = [cmds EXCEPT ![c].st = "io", ![c].io = "pending"]
  /\ UNCHANGED <<onchange, nextId, queue, events, subs, disconnected,
                 cbPanics, specialize, facade>>
  /\ UNCHANGED startupVars
  /\ UNCHANGED scanVars

\* First poll of a Write sub-task whose write_value_with_u8_array returns
\* Err instead of a promise (lines 265, 273-275).
WriteSyncError ==
  /\ \E c \in CmdIds :
       /\ cmds[c].st = "spawned"
       /\ cmds[c].kind = "Write"
       /\ cmds' = [cmds EXCEPT ![c] = Finished(cmds[c], "syncerr", 0)]
  /\ UNCHANGED <<onchange, nextId, queue, events, subs, disconnected,
                 cbPanics, specialize, facade>>
  /\ UNCHANGED startupVars
  /\ UNCHANGED scanVars

\* The platform promise of a sub-task resolves.
PromiseResolved ==
  /\ \E c \in CmdIds, d \in Bytes :
       /\ cmds[c].st = "io"
       /\ cmds' = [cmds EXCEPT ![c] =
                     Finished(cmds[c], "ok", IF cmds[c].kind = "Read" THEN d ELSE 0)]
  /\ UNCHANGED <<onchange, nextId, queue, events, subs, disconnected,
                 cbPanics, specialize, facade>>
  /\ UNCHANGED startupVars
  /\ UNCHANGED scanVars

\* The platform promise of a sub-task rejects.
PromiseRejected ==
  /\ \E c \in CmdIds :
       /\ cmds[c].st = "io"
       /\ cmds' = [cmds EXCEPT ![c] = Finished(cmds[c], "rejected", 0)]
  /\ UNCHANGED <<onchange, nextId, queue, events, subs, disconnected,
                 cbPanics, specialize, facade>>
  /\ UNCHANGED startupVars
  /\ UNCHANGED scanVars

\* -------------------------------------------------------- platform callbacks
\* Lines 242-244, 306-308: event_sender.send(ev).unwrap(); a broadcast send
\* fails when no receiver is subscribed.
SendPanics == ReceiverCount = 0
EventsAfterSend(ev) == IF SendPanics THEN events ELSE Append(events, ev)
PanicsAfterSend(who) == IF SendPanics THEN cbPanics \cup {who} ELSE cbPanics

\* A disconnect closure that sends its event twice.
GattServerDisconnected_Twice ==
  /\ disconnectCb
  /\ ~disconnected
  /\ Len(events) + 1 < MaxEvents
  /\ disconnected' = TRUE
  /\ events' = EventsAfterSend(EvDisconnected) \o
                  (IF SendPanics THEN <<>> ELSE <<EvDisconnected>>)
  /\ cbPanics' = PanicsAfterSend("ondisconnected")
  /\ UNCHANGED <<onchange, cmds, nextId, queue, subs, specialize, facade>>
  /\ UNCHANGED startupVars
  /\ UNCHANGED scanVars

\* Lines 240-245: the platform raises gattserverdisconnected.
GattServerDisconnected ==
  /\ disconnectCb
  /\ ~disconnected
  /\ Len(events) < MaxEvents
  /\ disconnected' = TRUE
  /\ events' = EventsAfterSend(EvDisconnected)
  /\ cbPanics' = PanicsAfterSend("ondisconnected")
  /\ UNCHANGED <<onchange, cmds, nextId, queue, subs, specialize, facade>>
  /\ UNCHANGED startupVars
  /\ UNCHANGED scanVars

\* Closures that pile up on a characteristic (as listeners added per
\* Subscribe would): one notification is broadcast once per Subscribe that
\* was dispatched on the characteristic.
ValueChanged_PerSubscribe(h, d) ==
  LET n == Cardinality({c \in CmdIds : /\ cmds[c].kind = "Subscribe"
                                        /\ cmds[c].st \notin {"sending", "queued"}
                                        /\ Lookup(cmds[c].ep) = h})
  IN
  /\ onchange[h] # "none"
  /\ events' = IF SendPanics THEN events
                ELSE events \o [i \in 1..n |-> EvNotification(onchange[h], d)]
  /\ cbPanics' = PanicsAfterSend("onchange")
  /\ UNCHANGED <<onchange, cmds, nextId, queue, subs, disconnected, specialize,
                 facade>>
  /\ UNCHANGED startupVars
  /\ UNCHANGED scanVars

\* Lines 297-309: the value-changed closure of characteristic h runs with
\* payload d: it broadcasts a Notification tagged with its captured endpoint.
ValueChanged(h, d) ==
  /\ onchange[h] # "none"
  /\ events' = EventsAfterSend(EvNotification(onchange[h], d))
  /\ cbPanics' = PanicsAfterSend("onchange")
  /\ UNCHANGED <<onchange, cmds, nextId, queue, subs, disconnected, specialize,
                 facade>>
  /\ UNCHANGED startupVars
  /\ UNCHANGED scanVars

\* The platform raises characteristicvaluechanged on a characteristic whose
\* closure is set.
CharacteristicValueChanged ==
  /\ Len(events) < MaxEvents
  /\ \E h \in Handles, d \in Bytes : ValueChanged(h, d)

\* The steps of the startup handshake.
Startup ==
  \/ ConnectOk
  \/ ConnectFail
  \/ ServiceFound
  \/ ServiceNotFound
  \/ CharFound
  \/ CharNotFound
  \/ RegisterAndSignal
  \/ SpecializeRecv

\* The steps of the command path once a command is in the queue.
Commands ==
  \/ DropFacade
  \/ Dispatch
  \/ LoopExit
  \/ TaskStart
  \/ WriteSyncError
  \/ PromiseResolved
  \/ PromiseRejected

\* The steps of the event path.
Broadcasts ==
  \/ EventStream
  \/ DropReceiver
  \/ GattServerDisconnected
  \/ CharacteristicValueChanged

Next ==
  \/ Startup
  \/ \E k \in Kinds, e \in Endpoints : Submit(k, e)
  \/ SendCompletes
  \/ Commands
  \/ Broadcasts

\* The whole session.
Spec == Init /\ [][Next]_vars

\* The session without event receivers and platform signals.
NextCommands ==
  \/ Startup
  \/ \E k \in Kinds, e \in Endpoints : Submit(k, e)
  \/ Commands

SpecCommands == Init /\ [][NextCommands]_vars

\* The whole session of one specifier, whose callers subscribe and
\* unsubscribe, with at most MaxEvCmds commands.
SubscriptionKinds == {"Subscribe", "Unsubscribe"}

NextEvents ==
  \/ Startup
  \/ \E k \in SubscriptionKinds, e \in Endpoints :
        nextId <= MaxEvCmds /\ Submit(k, e)
  \/ DropFacade
  \/ Dispatch
  \/ LoopExit
  \/ TaskStart
  \/ PromiseResolved
  \/ PromiseRejected
  \/ Broadcasts

InitEvents == Init /\ todo = Powerblow

SpecEvents == InitEvents /\ [][NextEvents]_vars

\* ------------------------------------------------------------- scan manager
\* src/wasm/rust/src/webbluetooth/webbluetooth_manager.rs: start_scanning
\* spawns one task per call; stop_scanning touches nothing.
hardwareVars == <<startupVars, sessionVars, specialize, facade>>

\* A start_scanning call and its task:
\*   pc       "spawned", "requesting" (request_device pending), "returned"
\*            (the task returned early), "finished" (it ran to its last line)
\*   result   what start_scanning returned to its caller
\*   stopped  a stop_scanning call returned after this scan was started
ScanIds == DOMAIN scans
DeviceFound(i) == [tag |-> "DeviceFound", scan |-> i]
ScanningFinished(i) == [tag |-> "ScanningFinished", scan |-> i]

\* Line 117: what start_scanning returns, whatever the browser supports.
StartResult(supported) == "Ok"

\* Lines 49-52, 117: start_scanning spawns the scan task and returns.
StartScanning ==
  /\ Len(scans) < MaxScans
  /\ scans' = Append(scans, [pc |-> "spawned", result |-> StartResult(bluetooth),
                             stopped |-> FALSE])
  /\ UNCHANGED <<bluetooth, managerEvents>>
  /\ UNCHANGED hardwareVars

\* Lines 53-86: first poll of the scan task: without navigator.bluetooth it
\* returns; otherwise it builds the filters and awaits request_device.
ScanTaskStart ==
  /\ \E i \in ScanIds :
       /\ scans[i].pc = "spawned"
       /\ scans' = [scans EXCEPT ![i].pc =
                      IF bluetooth THEN "requesting" ELSE "returned"]
  /\ UNCHANGED <<bluetooth, managerEvents>>
  /\ UNCHANGED hardwareVars

\* Lines 87-108, 113-115: request_device resolves with a device: a device
\* without a name makes the task return; a named one is sent as DeviceFound,
\* followed by ScanningFinished.
DeviceChosen ==
  /\ \E i \in ScanIds, named \in BOOLEAN :
       /\ scans[i].pc = "requesting"
       /\ scans' = [scans EXCEPT ![i].pc = IF named THEN "finished" ELSE "returned"]
       /\ managerEvents' =
            IF named
              THEN managerEvents \o <<DeviceFound(i), ScanningFinished(i)>>
              ELSE managerEvents
  /\ UNCHANGED bluetooth
  /\ UNCHANGED hardwareVars

\* Lines 109-115: request_device rejects (no device, or the chooser was
\* dismissed): the error is logged and ScanningFinished sent.
RequestRejected ==
  /\ \E i \in ScanIds :
       /\ scans[i].pc = "requesting"
       /\ scans' = [scans EXCEPT ![i].pc = "finished"]
       /\ managerEvents' = Append(managerEvents, ScanningFinished(i))
  /\ UNCHANGED bluetooth
  /\ UNCHANGED hardwareVars

\* Lines 120-122: stop_scanning returns Ok and does nothing else; the scans
\* started before it are marked as stopped for the record.
StopScanning ==
  /\ \E i \in ScanIds : ~scans[i].stopped
  /\ scans' = [i \in ScanIds |-> [scans[i] EXCEPT !.stopped = TRUE]]
  /\ UNCHANGED <<bluetooth, managerEvents>>
  /\ UNCHANGED hardwareVars

NextScan ==
  \/ StartScanning
  \/ ScanTaskStart
  \/ DeviceChosen
  \/ RequestRejected
  \/ StopScanning

\* A manager in a browser with or without navigator.bluetooth.
InitScan ==
  /\ InitSession
  /\ todo = Powerblow
  /\ InitManager
  /\ bluetooth \in BOOLEAN

SpecScan == InitScan /\ [][NextScan]_vars

\* A burst of notifications on one subscribed characteristic that no receiver
\* drains: the characteristic behind Rx notifies the payloads 1, 2, 1, 2, ...
\* until the broadcast channel has wrapped.
NotificationBurst ==
  /\ Len(events) <= BroadcastCap
  /\ Lookup("Rx") # NoChar
  /\ ValueChanged(Lookup("Rx"), 1 + (Len(events) % 2))

NextLag ==
  \/ Startup
  \/ \E e \in Endpoints : nextId <= MaxEvCmds /\ Submit("Subscribe", e)
  \/ Dispatch
  \/ TaskStart
  \/ PromiseResolved
  \/ PromiseRejected
  \/ (events = <<>> /\ EventStream)
  \/ NotificationBurst

SpecLag == InitEvents /\ [][NextLag]_vars

\* A burst of writes to Tx that outruns the loop: callers keep writing until
\* MaxCmds of them have found the command queue full.
NextFull ==
  \/ Startup
  \/ (nextId <= CommandQueueCap + MaxCmds /\ Send("Write", "Tx"))
  \/ SendCompletes
  \/ Dispatch

SpecFull == InitEvents /\ [][NextFull]_vars

\* Callers that subscribe to and unsubscribe from Tx over and over while the
\* characteristic notifies: one more command than a run of MaxCmds.
NextResubscribe ==
  \/ Startup
  \/ \E k \in SubscriptionKinds : nextId <= MaxCmds + 1 /\ Send(k, "Tx")
  \/ Dispatch
  \/ TaskStart
  \/ PromiseResolved
  \/ PromiseRejected
  \/ (events = <<>> /\ EventStream)
  \/ CharacteristicValueChanged

SpecResubscribe == InitEvents /\ [][NextResubscribe]_vars

\* ------------------------------------------------------------------ claims
Dequeued(c) == cmds[c].st \notin {"new", "sending", "queued"}
TaskEnded(c) == cmds[c].st \in {"done", "panicked"}
Mapped(e) == char_map[e] # NoChar
Connected == localEvents = <<"Connected">>

\* C1: a dequeued command whose endpoint is not a key of the EndpointMap has
\* its completion fulfilled with an error, and the loop has not crashed.
C1_UnknownEndpointIsAnError ==
  \A c \in CmdIds :
    (Dequeued(c) /\ ~Mapped(cmds[c].ep)) =>
      /\ cmds[c].nreply = 1
      /\ cmds[c].reply = ErrReply
      /\ loopPc # "panicked"

\* C2: whatever the outcome of its platform call, a sub-task that has ended
\* has fulfilled its command's completion exactly once.
C2_CompletionFulfilledOnce ==
  \A c \in CmdIds : TaskEnded(c) => cmds[c].nreply = 1

\* C3: a Write whose sub-task has ended was answered once, with success if
\* the platform accepted the write and with a DeviceCommunicationError if it
\* rejected it (at the call or at the promise); the step in which one write
\* fails changes no other command, nor the loop, its queue or its map.
WriteAnswered(c) ==
  (cmds[c].kind = "Write" /\ TaskEnded(c)) =>
    /\ cmds[c].st = "done"
    /\ cmds[c].nreply = 1
    /\ cmds[c].io = "ok" => cmds[c].reply = OkReply
    /\ cmds[c].io \in {"rejected", "syncerr"} => cmds[c].reply = ErrReply

WriteFails(c) ==
  /\ cmds[c].kind = "Write"
  /\ ~TaskEnded(c)
  /\ TaskEnded(c)'
  /\ cmds'[c].io \in {"rejected", "syncerr"}

C3_WritesAnsweredIndependently ==
  [][ /\ \A c \in CmdIds : WriteAnswered(c)'
      /\ \A c \in CmdIds :
           WriteFails(c) =>
             /\ \A d \in CmdIds \ {c} : cmds'[d] = cmds[d]
             /\ UNCHANGED <<loopPc, queue, char_map>> ]_vars

\* Two writes to distinct mapped endpoints in flight together: the later one
\* has failed while the earlier one is still pending and the loop receives.
C3_Witness ==
  /\ Len(cmds) >= 2
  /\ cmds[1].kind = "Write" /\ cmds[2].kind = "Write"
  /\ cmds[1].ep # cmds[2].ep
  /\ Mapped(cmds[1].ep) /\ Mapped(cmds[2].ep)
  /\ cmds[1].st = "io"
  /\ cmds[2].st = "done" /\ cmds[2].reply = ErrReply
  /\ loopPc = "recv"

\* C4: a Read on a mapped endpoint whose sub-task has ended was answered:
\* with a Reading of the requested endpoint and the returned bytes if the
\* platform read succeeded, with a DeviceCommunicationError if it failed.
C4_ReadAnswered ==
  \A c \in CmdIds :
    (cmds[c].kind = "Read" /\ TaskEnded(c)) =>
      /\ cmds[c].nreply = 1
      /\ cmds[c].io = "ok" =>
           /\ cmds[c].reply.tag = "Reading"
           /\ cmds[c].reply.ep = cmds[c].ep
           /\ cmds[c].reply.data \in Bytes
      /\ cmds[c].io = "rejected" => cmds[c].reply = ErrReply

\* C5: for a Subscribe, the value-changed closure is set by the time the
\* start-notifications request is issued, and the completion is fulfilled
\* once the request has resolved, with success or with failure.
C5_SubscribeAnswered ==
  \A c \in CmdIds :
    cmds[c].kind = "Subscribe" =>
      /\ cmds[c].io # "none" => onchange[Lookup(cmds[c].ep)] # "none"
      /\ cmds[c].io \in {"ok", "rejected"} => cmds[c].nreply = 1

\* C6: once the connection attempt has failed, the loop has returned having
\* sent exactly one Disconnected on the startup channel, resolved nothing,
\* set no disconnect closure, broadcast nothing and dequeued no command;
\* specialize does not return a Hardware, and no facade exists.
ConnectFailed == localEvents # <<>> /\ Head(localEvents) = "Disconnected"

C6_ConnectFailureEndsTheSession ==
  ConnectFailed =>
    /\ loopPc = "returned"
    /\ localEvents = <<"Disconnected">>
    /\ resolved = {} /\ missing = {}
    /\ \A e \in Endpoints : ~Mapped(e)
    /\ ~disconnectCb
    /\ events = <<>>
    /\ \A c \in CmdIds : ~Dequeued(c)
    /\ specialize \in {"waiting", "err"}
    /\ facade = "none"

\* The connection failed and specialize has returned its error.
C6_Witness == ConnectFailed /\ specialize = "err"

\* C7: a service or characteristic the device lacks does not stop the
\* startup, and once Connected is sent the EndpointMap holds exactly the
\* endpoints of the characteristics that were resolved.
C7_MissingPartsAreSkipped ==
  /\ missing # {} => ~(loopPc = "panicked" /\ localEvents = <<>>)
  /\ Connected =>
       {e \in Endpoints : Mapped(e)} = {MapKey(r.name, r.uuid) : r \in resolved}

\* C8: after startup, a resolved characteristic with identifier 00001401-...
\* is EndpointMap[Tx], and one with 00001402-... is EndpointMap[Rx].
C8_VendorCharacteristicsAreTxRx ==
  Connected =>
    \A r \in resolved :
      /\ r.uuid = U1401 => char_map["Tx"] = <<r.svc, r.uuid>>
      /\ r.uuid = U1402 => char_map["Rx"] = <<r.svc, r.uuid>>

\* What a receiver that subscribed after n events can still receive of a
\* broadcast log: the channel keeps the last BroadcastCap events.
ViewOf(log, n) ==
  LET kept == IF Len(log) - n > BroadcastCap THEN Len(log) - BroadcastCap ELSE n
  IN  SubSeq(log, kept + 1, Len(log))

\* C9: the step in which the platform signals the disconnect appends exactly
\* one Disconnected(deviceId) to what every live receiver sees, and changes
\* no command or completion.
DisconnectSignalled == ~disconnected /\ disconnected'

C9_OneDisconnectedPerReceiver ==
  [][ DisconnectSignalled =>
        /\ \A n \in Offsets :
             subs[n] > 0 =>
               ViewOf(events', n) = Append(ViewOf(events, n), EvDisconnected)
        /\ cmds' = cmds ]_vars

\* Two receivers have the Disconnected event in their view while a command
\* is in flight with its completion unfulfilled.
C9_Witness ==
  /\ disconnected
  /\ subs[0] = 2
  /\ events = <<EvDisconnected>>
  /\ \E c \in CmdIds : cmds[c].st = "io" /\ cmds[c].nreply = 0

\* C10: broadcasting an event never fails the closure that produces it,
\* whatever the receivers: none subscribed, or one that has not drained.
C10_BroadcastNeverFailsProducer == cbPanics = {}

\* The endpoints of the Subscribe commands the loop has dispatched.
SubscribedEndpoints ==
  {cmds[c].ep : c \in {x \in CmdIds : cmds[x].kind = "Subscribe" /\ Dequeued(x)}}

\* A step in which a value-changed closure broadcast its event.
NotificationSent == events' # events /\ disconnected' = disconnected

\* The step appends one Notification of a subscribed endpoint to the
\* broadcast, and to the view of the receivers among `among`.
OneNotificationMore(among) ==
  \E e \in SubscribedEndpoints, d \in Bytes :
    /\ events' = Append(events, EvNotification(e, d))
    /\ \A n \in among :
         ViewOf(events', n) = Append(ViewOf(events, n), EvNotification(e, d))

LiveOffsets == {n \in Offsets : subs[n] > 0}

\* C11 (as stated): every notification after a Subscribe adds exactly one
\* Notification(deviceId, endpoint, payload), tagged with the subscribed
\* endpoint and in notified order, to what every live receiver sees, however
\* many notifications there are.
C11_EveryNotificationAtEveryReceiver ==
  [][NotificationSent => OneNotificationMore(LiveOffsets)]_vars

\* C11 (amended): every notification after a Subscribe is broadcast exactly
\* once, tagged with the subscribed endpoint and in notified order, and is
\* added to what a live receiver sees as long as that receiver has no more
\* than BroadcastCap events waiting.
C11_NotificationsWithinCapacity ==
  [][NotificationSent =>
       OneNotificationMore(
         {n \in LiveOffsets : Len(events') - n <= BroadcastCap})]_vars

\* A receiver that subscribed before the first notification sees the two
\* payloads notified on Rx, in order, after a Subscribe on Rx succeeded.
C11_Witness ==
  /\ subs[0] > 0
  /\ Len(cmds) >= 1
  /\ cmds[1].kind = "Subscribe" /\ cmds[1].ep = "Rx" /\ cmds[1].reply = OkReply
  /\ ViewOf(events, 0) = <<EvNotification("Rx", 1), EvNotification("Rx", 2)>>

\* C12: once the command queue is closed and the dispatch loop has exited,
\* no HardwareEvent is broadcast any more, whatever the platform signals.
C12_NoEventAfterLoopExit ==
  [][(loopPc = "exited" /\ QueueClosed) => events' = events]_vars

\* C13: after startup the loop is suspended nowhere but on the wait for the
\* next command: while the platform call of an earlier command is still
\* pending, the loop is at recv() and takes the next queued command.
InFlight(c) == cmds[c].st \in {"spawned", "io"}
LoopRuns == Connected /\ loopPc \notin {"panicked", "exited"}

C13_LoopNeverWaitsForIo ==
  /\ LoopRuns => loopPc = "recv"
  /\ (LoopRuns /\ queue # <<>> /\ \E c \in CmdIds : InFlight(c)) =>
       ENABLED Dispatch

\* A Write submitted after a Read has completed while the platform call of
\* the Read is still pending.
C13_Witness ==
  /\ Len(cmds) >= 2
  /\ cmds[1].kind = "Read" /\ cmds[1].st = "io" /\ cmds[1].nreply = 0
  /\ cmds[2].kind = "Write" /\ cmds[2].st = "done" /\ cmds[2].reply = OkReply
  /\ loopPc = "recv"

\* The ids of a sequence of command ids.
IdsOf(q) == {q[i] : i \in DOMAIN q}

\* Every command created is in exactly one place: with its caller, waiting
\* for room; in the queue, once; or taken by the loop.
NoCommandLost ==
  LET inQueue == IdsOf(queue) IN
  /\ Len(queue) <= CommandQueueCap
  /\ Cardinality(inQueue) = Len(queue)
  /\ inQueue = {c \in CmdIds : cmds[c].st = "queued"}

\* The queue changes only by the loop taking its head or by a command that
\* was not in it being accepted at its tail, which needs a free slot; a
\* waiting caller's command goes nowhere but into the queue.
FifoStep ==
  /\ queue' # queue =>
       \/ /\ queue # <<>>
          /\ queue' = Tail(queue)
          /\ cmds'[Head(queue)].st \in {"spawned", "lost"}
       \/ /\ Len(queue) < CommandQueueCap
          /\ queue' = Append(queue, queue'[Len(queue')])
          /\ queue'[Len(queue')] \in DOMAIN cmds' \ IdsOf(queue)
  /\ \A c \in Sending : cmds'[c].st \in {"sending", "queued"}

\* C14: commands are dequeued in the order they were accepted into the
\* queue, and none is dropped when the queue is full: the caller whose send
\* finds it at capacity waits, and its command is enqueued once there is room.
C14_FifoAndBackPressure == [][FifoStep /\ NoCommandLost']_vars

\* A command whose caller found the queue full and waited has been enqueued
\* and is the one the loop dequeued last, after every earlier command.
C14_Witness ==
  \E c \in CmdIds :
    /\ cmds[c].waited
    /\ cmds[c].st = "spawned"
    /\ \A d \in CmdIds : d < c <=> Dequeued(d) /\ d # c

\* How many times event ev was sent on the manager's event channel.
SentCount(ev) ==
  Cardinality({k \in DOMAIN managerEvents : managerEvents[k] = ev})

ScanTaskEnded(i) == scans[i].pc \in {"returned", "finished"}

\* C15: a scan never sends a second ScanningFinished, and a scan whose task
\* has ended has sent exactly one, whichever way it ended.
C15_OneScanningFinishedPerScan ==
  \A i \in ScanIds :
    /\ SentCount(ScanningFinished(i)) <= 1
    /\ ScanTaskEnded(i) => SentCount(ScanningFinished(i)) = 1

\* C16: once stop_scanning has returned Ok, a scan that was started before
\* it sends no DeviceFound.
C16_NoDeviceFoundAfterStop ==
  [][\A i \in ScanIds :
       scans[i].stopped =>
         SentCount(DeviceFound(i))' = SentCount(DeviceFound(i))]_vars

\* C17: start_scanning returns Ok only where navigator.bluetooth exists, and
\* a capability-unavailable failure where it does not.
C17_NoRadioIsReported ==
  \A i \in ScanIds :
    /\ scans[i].result = "Ok" => bluetooth
    /\ ~bluetooth => scans[i].result = "CapabilityUnavailable"

\* Connected is somewhere on the startup channel.
ConnectedSent == \E k \in DOMAIN localEvents : localEvents[k] = "Connected"

\* C18: Connected is sent only after the connection succeeded, every row of
\* the specifier was attempted and the disconnect closure was set; specialize
\* returns only after a startup signal arrived, returns a Hardware only after
\* Connected, and no command is created or dequeued before Connected.
C18_StartupOrderAndHandshake ==
  /\ ConnectedSent =>
       /\ Connected
       /\ loopPc \in {"recv", "exited", "panicked"}
       /\ todo = {}
       /\ disconnectCb
  /\ specialize # "waiting" => localEvents # <<>>
  /\ specialize = "ok" => Connected
  /\ facade # "none" => specialize = "ok"
  /\ cmds # <<>> => Connected

\* A session that skipped a missing service, resolved the other one, sent
\* Connected, returned its Hardware and has dequeued a command.
C18_Witness ==
  /\ Connected
  /\ missing = {"service"} /\ resolved # {}
  /\ facade = "live"
  /\ \E c \in CmdIds : Dequeued(c)

\* The loop has terminated: it returned, exited or panicked.
LoopTerminated == loopPc \in {"returned", "exited", "panicked"}

\* A command nobody will answer: it never reaches a loop that has
\* terminated, or the loop or its sub-task panicked on it.
Undeliverable(c) ==
  /\ cmds[c].st \in {"sending", "queued"}
  /\ LoopTerminated
Abandoned(c) == cmds[c].st \in {"lost", "panicked"}
NeverAnswered(c) == Undeliverable(c) \/ Abandoned(c)

\* C19: a facade operation whose command cannot reach the loop because the
\* loop has terminated, or whose sub-task ended without fulfilling the
\* completion, stays unresolved: its completion holds no reply, success or
\* error, and no later step gives it one.
C19_UnfulfilledStaysPending ==
  [][\A c \in CmdIds :
       NeverAnswered(c) =>
         /\ cmds[c].nreply = 0 /\ cmds[c].reply = NoReply
         /\ NeverAnswered(c)'
         /\ cmds'[c].nreply = 0 /\ cmds'[c].reply = NoReply]_vars

\* The loop panicked on the first command, and a second operation, called
\* afterwards or before, sits in the queue of the dead loop, unanswered.
C19_Witness ==
  /\ Len(cmds) >= 2
  /\ loopPc = "panicked"
  /\ cmds[1].st = "lost" /\ cmds[1].nreply = 0
  /\ cmds[2].st = "queued" /\ cmds[2].nreply = 0

\* The step in which the loop dispatches command c.
DispatchedNow(c) == ~Dequeued(c) /\ Dequeued(c)'

\* C20: a characteristic holds one value-changed closure: its slot changes
\* only when a Subscribe on its endpoint is dispatched, which puts that
\* endpoint's closure in place of what was there, and nothing, Unsubscribe
\* included, empties it; so however many Subscribes and Unsubscribes went
\* before, a notification adds exactly one event to the broadcast and to
\* what each live receiver (within capacity) sees.
C20_OneClosurePerCharacteristic ==
  [][ /\ \A h \in Handles :
           /\ onchange[h] # "none" => onchange'[h] # "none"
           /\ onchange'[h] # onchange[h] =>
                \E c \in CmdIds :
                  /\ DispatchedNow(c)
                  /\ cmds[c].kind = "Subscribe"
                  /\ Lookup(cmds[c].ep) = h
                  /\ onchange'[h] = cmds[c].ep
      /\ NotificationSent =>
           /\ Len(events') = Len(events) + 1
           /\ \A n \in LiveOffsets :
                Len(events') - n <= BroadcastCap =>
                  Len(ViewOf(events', n)) = Len(ViewOf(events, n)) + 1 ]_vars

\* Tx was subscribed twice and then unsubscribed, each answered with
\* success; its closure is still set, and the receiver has one Notification
\* for the one value change the platform raised.
C20_Witness ==
  /\ Len(cmds) >= 3
  /\ \A c \in 1..3 : cmds[c].ep = "Tx" /\ cmds[c].reply = OkReply
  /\ cmds[1].kind = "Subscribe" /\ cmds[2].kind = "Subscribe"
  /\ cmds[3].kind = "Unsubscribe"
  /\ onchange[Lookup("Tx")] = "Tx"
  /\ subs[0] > 0
  /\ ViewOf(events, 0) = <<EvNotification("Tx", 1)>>
====
